---- MODULE Spec2Model ----
(***************************************************************************)
(* EmbeddingEngine (backend/utils/embeddings.py): embedding generation and *)
(* vector storage on a Milvus collection.                                  *)
(*                                                                         *)
(* Engines are the EmbeddingEngine objects of one Python process; they     *)
(* share the pymilvus connection alias "default" and the one collection    *)
(* named settings.milvus_collection.  Every call into pymilvus is a step   *)
(* of its own, so two engines interleave at the calls.  A call into the    *)
(* store or the model either succeeds or raises (parameter ok = FALSE: the *)
(* environment makes it fail); the store's effect of a successful call is  *)
(* the one its capability has: insert buffers rows, flush makes the        *)
(* buffered rows visible to search, search ranks the visible rows.         *)
(*                                                                         *)
(* SpecInit runs the constructions (and close) from the state in which no  *)
(* engine exists; Spec runs store_embeddings, search and close from the    *)
(* state after construction, which SpecInit reaches; SpecEmbed runs        *)
(* embed_texts, which shares no state with the other calls.                *)
(***************************************************************************)
EXTENDS Integers, Sequences, FiniteSets, TLC

\* ---------------------------------------------------------------- bounds
Engines == {"e1", "e2"}
Texts == {"a", "b"} \* the texts the callers use
MaxBatch == 2      \* longest texts / embeddings list of one call
MaxIds == 2        \* uuid4 values drawn over a run
MaxK == 2          \* largest top_k of a search
MaxTexts == 3    \* longest texts list of one embed_texts call

\* ------------------------------------------------------ program constants
dimension == 384         \* settings.vector_dimension
model_dimension == 384   \* output size of SentenceTransformer('all-MiniLM-L6-v2')

DocIds == {"d1"}

\* metadata: a dict that holds the key 'document_id' or does not
Metadatas == {[k \in {"document_id"} |-> d] : d \in DocIds} \cup {<<>>}

SeqsUpTo(S, n) == UNION {[1..m -> S] : m \in 0..n}

Range(s) == {s[i] : i \in DOMAIN s}

\* model.encode of one text: a vector of the model's size; its direction is
\* the text's (equal texts embed equally, different texts differently)
encode(t) == [dim |-> model_dimension, dir |-> t]

\* Mutant of encode_list: every position holds the first text's vector
encode_list_first(texts) == [i \in DOMAIN texts |-> encode(texts[1])]

\* model.encode(texts, convert_to_numpy=True).tolist()
encode_list(texts) == [i \in DOMAIN texts |-> encode(texts[i])]

\* cosine similarity, scaled: 2 for the same direction, 1 otherwise
Score(q, v) == IF q.dir = v.dir THEN 2 ELSE 1

\* No call: `last` after a step that completed none, `call` of an engine
\* that is not inside store_embeddings.  A completed call is recorded with
\* its outcome (status: ok, raised; value: what it returned), the calls it
\* issued to the store and the model (calls), the one of them that failed
\* (failed, else "none") and, where a claim reads them, its arguments (args).
NoCall == [op |-> "none", status |-> "none", failed |-> "none"]

VARIABLES
  pc,          \* per engine: new, has, attach, create, index, load, ready, flush, failed
  closed,      \* per engine: close() has returned
  connected,   \* the connection alias "default" is registered
  exists,      \* the store holds the collection
  hasIndex,    \* the collection has its vector index
  collDim,     \* the dim of the collection's vector field (0: no collection)
  loaded,      \* the collection is loaded into memory
  buffer,      \* rows inserted and not yet flushed
  committed,   \* rows visible to search
  nextId,      \* uuid4 values drawn so far
  call,        \* per engine: the store_embeddings call between insert and
               \* flush: its ids and the caller's embeddings, texts and
               \* metadata as the call leaves them
  last,        \* the call the latest step completed, and its outcome
  createCalls, \* Collection(name, schema) calls issued
  indexCalls,  \* create_index calls issued
  ctor,        \* per engine: history of its construction (calls: the
               \* pymilvus calls it issued, in order, the last one the
               \* failed one when error)
  overlap,     \* two engines have been inside _init_collection at once
  returned,    \* ids returned by successful store_embeddings calls
  nReturned,   \* how many ids those calls returned
  failedIds    \* ids of the batches whose store_embeddings call raised

vars == <<pc, closed, connected, exists, hasIndex, collDim, loaded, buffer,
          committed,
          nextId, call, last, createCalls, indexCalls, ctor, overlap, returned,
          nReturned, failedIds>>

storeVars == <<exists, hasIndex, collDim, loaded, buffer, committed>>
histVars == <<returned, nReturned, failedIds>>

\* The dims a collection left by an earlier deployment may have
Dims == {dimension, 2 * dimension}

\* No engine constructed yet in this process; the store is without the
\* collection, or holds the one an earlier process left: with or without
\* its index, of the configured dim or another, not loaded
New ==
  /\ pc = [e \in Engines |-> "new"]
  /\ closed = [e \in Engines |-> FALSE]
  /\ connected = FALSE
  /\ exists \in BOOLEAN
  /\ hasIndex \in IF exists THEN BOOLEAN ELSE {FALSE}
  /\ collDim \in IF exists THEN Dims ELSE {0}
  /\ loaded = FALSE
  /\ buffer = {}
  /\ committed = {}
  /\ nextId = 0
  /\ call = [e \in Engines |-> NoCall]
  /\ last = NoCall
  /\ createCalls = 0
  /\ indexCalls = 0
  /\ ctor = [e \in Engines |->
               [after |-> FALSE, disturbed |-> FALSE, error |-> FALSE,
                creates |-> 0, calls |-> <<>>]]
  /\ overlap = FALSE
  /\ returned = {}
  /\ nReturned = 0
  /\ failedIds = {}

\* The state after construction: the engines constructed one after the
\* other, the first having created the collection, and nothing written yet
Init ==
  /\ pc = [e \in Engines |-> "ready"]
  /\ closed = [e \in Engines |-> FALSE]
  /\ connected = TRUE
  /\ exists = TRUE
  /\ hasIndex = TRUE
  /\ collDim = dimension
  /\ loaded = TRUE
  /\ buffer = {}
  /\ committed = {}
  /\ nextId = 0
  /\ call = [e \in Engines |-> NoCall]
  /\ last = NoCall
  /\ createCalls = 1
  /\ indexCalls = 1
  /\ ctor = [e \in Engines |->
               [after |-> e # "e1", disturbed |-> FALSE, error |-> FALSE,
                creates |-> IF e = "e1" THEN 1 ELSE 0,
                calls |-> IF e = "e1"
                          THEN <<"connect", "has", "create", "index", "load">>
                          ELSE <<"connect", "has", "attach", "load">>]]
  /\ overlap = FALSE
  /\ returned = {}
  /\ nReturned = 0
  /\ failedIds = {}

\* The outcome of the call completed last has gone to its caller: a call
\* starts, or goes on, from there.  `last` is read by no call, so this orders
\* the observation of an outcome and changes nothing the engines do.
Returned == last = NoCall

\* return ... / raise: the caller takes the outcome of the completed call
return_to_caller ==
  /\ last # NoCall
  /\ last' = NoCall
  /\ UNCHANGED <<pc, closed, connected, storeVars, nextId, call, createCalls,
                 indexCalls, ctor, overlap, histVars>>

\* An engine is inside _init_collection
InInit(e) == pc[e] \in {"has", "attach", "create", "index", "load"}

\* ------------------------------------------------------------ construction

\* Mutant of connect_milvus: the connection error is logged and not raised
connect_milvus_noraise(e, ok) ==
  /\ Returned
  /\ pc[e] = "new"
  /\ connected' = (connected \/ ok)
  /\ pc' = [pc EXCEPT ![e] = "has"]
  /\ ctor' = [ctor EXCEPT ![e] =
       [@ EXCEPT !.after = \E o \in Engines \ {e} : pc[o] \in {"ready", "flush"},
                 !.disturbed = ~ok,
                 !.error = ~ok,
                 !.calls = <<"connect">>]]
  /\ overlap' = (overlap \/ (ok /\ \E o \in Engines \ {e} : InInit(o)))
  /\ last' = NoCall
  /\ UNCHANGED <<closed, storeVars, nextId, call, createCalls, indexCalls,
                 histVars>>

\* __init__ up to _connect_milvus: connections.connect(alias="default", ...);
\* on failure the error is logged and raised out of the constructor.
connect_milvus(e, ok) ==
  /\ Returned
  /\ pc[e] = "new"
  /\ connected' = (connected \/ ok)
  /\ pc' = [pc EXCEPT ![e] = IF ok THEN "has" ELSE "failed"]
  /\ ctor' = [ctor EXCEPT ![e] =
       [@ EXCEPT !.after = \E o \in Engines \ {e} : pc[o] \in {"ready", "flush"},
                 !.disturbed = ~ok,
                 !.error = ~ok,
                 !.calls = <<"connect">>]]
  /\ overlap' = (overlap \/ (ok /\ \E o \in Engines \ {e} : InInit(o)))
  /\ last' = NoCall
  /\ UNCHANGED <<closed, storeVars, nextId, call, createCalls, indexCalls,
                 histVars>>

\* One step of _init_collection: the pymilvus call succeeded (to) or raised;
\* `env` says whether the failure was the environment's (a fault, a missing
\* connection) and not the store's answer to what the engine asked.
InitStep(e, success, env, to) ==
  /\ pc' = [pc EXCEPT ![e] = IF success THEN to ELSE "failed"]
  /\ ctor' = [ctor EXCEPT ![e] =
       [@ EXCEPT !.disturbed = @ \/ env,
                 !.error = @ \/ ~success,
                 !.creates = @ + (IF pc[e] = "create" THEN 1 ELSE 0),
                 !.calls = Append(@, pc[e])]]
  /\ last' = NoCall
  /\ UNCHANGED <<closed, connected, nextId, call, overlap, histVars>>

\* Mutant of init_collection_has: the existence check is dropped and the
\* collection is created on every initialisation
init_collection_has_nocheck(e, ok) ==
  /\ Returned
  /\ pc[e] = "has"
  /\ InitStep(e, ok /\ connected, ~(ok /\ connected), "create")
  /\ UNCHANGED <<storeVars, createCalls, indexCalls>>

\* utility.has_collection(settings.milvus_collection) and the branch on it
init_collection_has(e, ok) ==
  /\ Returned
  /\ pc[e] = "has"
  /\ InitStep(e, ok /\ connected, ~(ok /\ connected),
              IF exists THEN "attach" ELSE "create")
  /\ UNCHANGED <<storeVars, createCalls, indexCalls>>

\* Mutant of init_collection_attach: the existing branch does not load
init_collection_attach_noload(e, ok) ==
  /\ Returned
  /\ pc[e] = "attach"
  /\ InitStep(e, ok /\ connected /\ exists, ~(ok /\ connected), "ready")
  /\ UNCHANGED <<storeVars, createCalls, indexCalls>>

\* the existing branch: Collection(settings.milvus_collection); the
\* collection's schema is not read
init_collection_attach(e, ok) ==
  /\ Returned
  /\ pc[e] = "attach"
  /\ InitStep(e, ok /\ connected /\ exists, ~(ok /\ connected), "load")
  /\ UNCHANGED <<storeVars, createCalls, indexCalls>>

\* the absent branch: Collection(name=..., schema=schema) creates the
\* collection (and attaches to one of the same schema that exists by now)
init_collection_create(e, ok) ==
  /\ Returned
  /\ pc[e] = "create"
  /\ createCalls' = createCalls + 1
  /\ InitStep(e, ok /\ connected, ~(ok /\ connected), "index")
  /\ exists' = (exists \/ (ok /\ connected))
  /\ collDim' = IF ok /\ connected /\ ~exists THEN dimension ELSE collDim
  /\ UNCHANGED <<hasIndex, loaded, buffer, committed, indexCalls>>

\* self.collection.create_index(field_name="vector", index_params=...)
init_collection_index(e, ok) ==
  /\ Returned
  /\ pc[e] = "index"
  /\ indexCalls' = indexCalls + 1
  /\ InitStep(e, ok /\ connected /\ exists, ~(ok /\ connected), "load")
  /\ hasIndex' = (hasIndex \/ (ok /\ connected /\ exists))
  /\ UNCHANGED <<exists, collDim, loaded, buffer, committed, createCalls>>

\* Mutant of init_collection_load: a failed load is logged and not raised
init_collection_load_noraise(e, ok) ==
  /\ Returned
  /\ pc[e] = "load"
  /\ InitStep(e, TRUE, ~(ok /\ connected), "ready")
  /\ loaded' = (loaded \/ (ok /\ connected /\ exists /\ hasIndex))
  /\ UNCHANGED <<exists, hasIndex, collDim, buffer, committed, createCalls,
                 indexCalls>>

\* self.collection.load(): the store loads a collection that has its index
\* and rejects the load of one that has none (the COSINE metric of line 70
\* needs a store of the versions that do)
init_collection_load(e, ok) ==
  /\ Returned
  /\ pc[e] = "load"
  /\ InitStep(e, ok /\ connected /\ exists /\ hasIndex, ~(ok /\ connected),
              "ready")
  /\ loaded' = (loaded \/ (ok /\ connected /\ exists /\ hasIndex))
  /\ UNCHANGED <<exists, hasIndex, collDim, buffer, committed, createCalls,
                 indexCalls>>

\* ------------------------------------------------------- the collection

\* The rows a column batch holds: row i takes the i-th value of every column
Rows(entities) ==
  {[id |-> entities[1][i], document_id |-> entities[2][i],
    text |-> entities[3][i], vector |-> entities[4][i]] :
     i \in 1..Len(entities[1])}

\* The store accepts a column batch whose columns are equally long and whose
\* vectors have the collection's dimension
Accepts(entities) ==
  /\ \A c \in 2..4 : Len(entities[c]) = Len(entities[1])
  /\ \A i \in DOMAIN entities[4] : entities[4][i].dim = collDim

\* The ranked hit lists the store may answer one query vector with: the
\* `limit` best visible rows (all of them when fewer), by non-increasing
\* score, ties in the store's own order
RankedHits(q, limit) ==
  LET n == IF Cardinality(committed) < limit THEN Cardinality(committed)
           ELSE limit
  IN {[i \in 1..n |-> [id |-> h[i].id, text |-> h[i].text,
                        document_id |-> h[i].document_id,
                        score |-> Score(q, h[i].vector)]] :
      h \in {h \in [1..n -> committed] :
        /\ \A i, j \in 1..n : i < j =>
             /\ h[i] # h[j]
             /\ Score(q, h[i].vector) >= Score(q, h[j].vector)
        /\ \A r \in committed \ Range(h) :
             \A i \in 1..n : Score(q, h[i].vector) >= Score(q, r.vector)}}

\* self.collection.search(data=..., limit=...): one ranked hit list per
\* query vector of data
collection_search(data, limit) ==
  {g \in [DOMAIN data -> UNION {RankedHits(data[i], limit) : i \in DOMAIN data}] :
     \A i \in DOMAIN data : g[i] \in RankedHits(data[i], limit)}

\* ------------------------------------------------------------ store_embeddings

\* Mutant of uuid4_list: one uuid4 value, repeated for every text
uuid4_repeated(n) == [i \in 1..n |-> nextId + 1]

\* vector_ids = [str(uuid.uuid4()) for _ in range(len(texts))]: one value
\* per text, none drawn before
uuid4_list(n) == [i \in 1..n |-> nextId + i]

\* Mutant of get_document_id: the metadata's document_id is not read
get_document_id_unknown(metadata) == "unknown"

\* metadata.get('document_id', 'unknown')
get_document_id(metadata) ==
  IF "document_id" \in DOMAIN metadata THEN metadata["document_id"]
  ELSE "unknown"

\* entities = [vector_ids, [document_id] * len(texts), texts, embeddings]
Entities(vector_ids, document_id, texts, embeddings) ==
  <<vector_ids, [i \in DOMAIN texts |-> document_id], texts, embeddings>>

\* Mutant of store_except: the handler issues the failed call a second time
store_except_retry(calls, args) ==
  [op |-> "store", status |-> "raised", failed |-> calls[Len(calls)],
   calls |-> Append(calls, calls[Len(calls)]), value |-> <<>>, args |-> args]

\* store_embeddings' handler: except Exception: logger.error(...); raise
store_except(calls, args) ==
  [op |-> "store", status |-> "raised", failed |-> calls[Len(calls)],
   calls |-> calls, value |-> <<>>, args |-> args]

\* store_embeddings up to self.collection.insert(entities)
store_embeddings_insert(e, embeddings, texts, metadata, ok) ==
  /\ Returned
  /\ pc[e] = "ready"
  /\ nextId + Len(texts) <= MaxIds
  /\ LET vector_ids == uuid4_list(Len(texts))
         entities == Entities(vector_ids, get_document_id(metadata), texts,
                              embeddings)
         args == [embeddings |-> Len(embeddings), texts |-> Len(texts)]
         success == ok /\ connected /\ exists /\ Accepts(entities)
     IN /\ nextId' = nextId + Len(texts)
        /\ IF success
           THEN /\ buffer' = buffer \cup Rows(entities)
                /\ pc' = [pc EXCEPT ![e] = "flush"]
                /\ call' = [call EXCEPT ![e] =
                     [op |-> "store", args |-> args, ids |-> vector_ids,
                      embeddings |-> embeddings, texts |-> texts,
                      metadata |-> metadata]]
                /\ last' = NoCall
                /\ UNCHANGED failedIds
           ELSE /\ last' = store_except(<<"insert">>, args)
                /\ failedIds' = failedIds \cup Range(vector_ids)
                /\ UNCHANGED <<buffer, pc, call>>
  /\ UNCHANGED <<closed, connected, exists, hasIndex, collDim, loaded,
                 committed,
                 createCalls, indexCalls, ctor, overlap, returned, nReturned>>

\* Mutant of store_embeddings_flush: the ids are returned without the flush
store_embeddings_noflush(e, ok) ==
  /\ Returned
  /\ pc[e] = "flush"
  /\ last' = [op |-> "store", status |-> "ok", failed |-> "none",
              calls |-> <<"insert">>, value |-> call[e].ids,
              args |-> call[e].args]
  /\ returned' = returned \cup Range(call[e].ids)
  /\ nReturned' = nReturned + Len(call[e].ids)
  /\ pc' = [pc EXCEPT ![e] = "ready"]
  /\ call' = [call EXCEPT ![e] = NoCall]
  /\ UNCHANGED <<closed, connected, storeVars, nextId, createCalls,
                 indexCalls, ctor, overlap, failedIds>>

\* self.collection.flush(); return vector_ids
store_embeddings_flush(e, ok) ==
  /\ Returned
  /\ pc[e] = "flush"
  /\ LET success == ok /\ connected /\ exists
         ids == call[e].ids
     IN IF success
        THEN /\ committed' = committed \cup buffer
             /\ buffer' = {}
             /\ last' = [op |-> "store", status |-> "ok", failed |-> "none",
                         calls |-> <<"insert", "flush">>, value |-> ids,
                         args |-> call[e].args]
             /\ returned' = returned \cup Range(ids)
             /\ nReturned' = nReturned + Len(ids)
             /\ UNCHANGED failedIds
        ELSE /\ last' = store_except(<<"insert", "flush">>, call[e].args)
             /\ failedIds' = failedIds \cup Range(ids)
             /\ UNCHANGED <<committed, buffer, returned, nReturned>>
  /\ pc' = [pc EXCEPT ![e] = "ready"]
  /\ call' = [call EXCEPT ![e] = NoCall]
  /\ UNCHANGED <<closed, connected, exists, hasIndex, collDim, loaded,
                 nextId,
                 createCalls, indexCalls, ctor, overlap>>

IsPrefix(s, t) == Len(s) <= Len(t) /\ \A i \in DOMAIN s : s[i] = t[i]

\* The calls the callers make: any texts, with the embeddings of those texts,
\* of all but the last of them, or of them and one text more
StoreInputs ==
  {<<encode_list(u), t>> : <<u, t>> \in
     {p \in SeqsUpTo(Texts, MaxBatch) \X SeqsUpTo(Texts, MaxBatch) :
        \/ p[1] = p[2]
        \/ IsPrefix(p[1], p[2]) /\ Len(p[1]) + 1 = Len(p[2])
        \/ IsPrefix(p[2], p[1]) /\ Len(p[2]) + 1 = Len(p[1])}}

\* ------------------------------------------------------------ embed_texts

\* embed_texts' handler: except Exception: logger.error(...); raise
embed_except ==
  [op |-> "embed", status |-> "raised", failed |-> "encode",
   calls |-> <<"encode">>, value |-> <<>>, args |-> <<>>]

\* embeddings = self.model.encode(texts, convert_to_numpy=True);
\* return embeddings.tolist()
embed_texts(e, texts, ok) ==
  /\ Returned
  /\ pc[e] = "ready"
  /\ last' = IF ok
             THEN [op |-> "embed", status |-> "ok", failed |-> "none",
                   calls |-> <<"encode">>, value |-> encode_list(texts),
                   args |-> texts]
             ELSE embed_except
  /\ UNCHANGED <<pc, closed, connected, storeVars, nextId, call, createCalls,
                 indexCalls, ctor, overlap, histVars>>

\* ------------------------------------------------------------------ search

\* data=[query_embedding]
search_data(query_embedding) == <<query_embedding>>

\* Mutant of search_limit: one hit more than asked for
search_limit_off(top_k) == top_k + 1

\* limit=top_k
search_limit(top_k) == top_k

\* Mutant of format_results: the first hit of every group is skipped
\* (for hit in hits[1:])
RECURSIVE format_results_skip(_)
format_results_skip(search_results) ==
  IF search_results = <<>> THEN <<>>
  ELSE LET group == Head(search_results)
           hits == IF group = <<>> THEN <<>> ELSE Tail(group)
       IN [i \in DOMAIN hits |->
             [id |-> hits[i].id, text |-> hits[i].text,
              score |-> hits[i].score,
              metadata |-> [document_id |-> hits[i].document_id]]]
          \o format_results_skip(Tail(search_results))

\* for hits in search_results: for hit in hits: results.append({...})
RECURSIVE format_results(_)
format_results(search_results) ==
  IF search_results = <<>> THEN <<>>
  ELSE LET hits == Head(search_results)
       IN [i \in DOMAIN hits |->
             [id |-> hits[i].id, text |-> hits[i].text,
              score |-> hits[i].score,
              metadata |-> [document_id |-> hits[i].document_id]]]
          \o format_results(Tail(search_results))

\* Mutant of search_except: the error is logged and an empty list returned
search_except_swallow(calls) ==
  [op |-> "search", status |-> "ok", failed |-> calls[Len(calls)],
   calls |-> calls, value |-> <<>>, args |-> <<>>]

\* search's handler: except Exception: logger.error(...); raise
search_except(calls) ==
  [op |-> "search", status |-> "raised", failed |-> calls[Len(calls)],
   calls |-> calls, value |-> <<>>, args |-> <<>>]

\* search: the query's embedding (embed_texts([query_text])), then
\* self.collection.search(...), then the results' formatting
search(e, query_text, top_k, embed_ok, ok) ==
  /\ Returned
  /\ pc[e] = "ready"
  /\ LET args == [top_k |-> top_k]
         success == ok /\ connected /\ exists /\ loaded
     IN IF ~embed_ok
        THEN last' = search_except(<<"encode">>)
        ELSE IF ~success
        THEN last' = search_except(<<"encode", "search">>)
        ELSE \E search_results \in
                  collection_search(search_data(encode(query_text)),
                                    search_limit(top_k)) :
               last' = [op |-> "search", status |-> "ok", failed |-> "none",
                        calls |-> <<"encode", "search">>,
                        value |-> format_results(search_results),
                        args |-> args]
  /\ UNCHANGED <<pc, closed, connected, storeVars, nextId, call, createCalls,
                 indexCalls, ctor, overlap, histVars>>

\* ------------------------------------------------------------------- close

\* close's handler: except Exception: logger.error(...), and no raise
close_except ==
  [op |-> "close", status |-> "ok", failed |-> "disconnect",
   calls |-> <<"disconnect">>, value |-> <<>>, args |-> <<>>]

\* close(): connections.disconnect("default")
close(e, ok) ==
  /\ Returned
  /\ pc[e] = "ready"
  /\ ~closed[e]
  /\ closed' = [closed EXCEPT ![e] = TRUE]
  /\ connected' = (connected /\ ~ok)
  /\ last' = IF ok
             THEN [op |-> "close", status |-> "ok", failed |-> "none",
                   calls |-> <<"disconnect">>, value |-> <<>>, args |-> <<>>]
             ELSE close_except
  /\ UNCHANGED <<pc, storeVars, nextId, call, createCalls, indexCalls, ctor,
                 overlap, histVars>>

\* The constructions of the engines, and close()
NextInit ==
  \/ \E e \in Engines, ok \in BOOLEAN : connect_milvus(e, ok)
  \/ \E e \in Engines, ok \in BOOLEAN : init_collection_has(e, ok)
  \/ \E e \in Engines, ok \in BOOLEAN : init_collection_attach(e, ok)
  \/ \E e \in Engines, ok \in BOOLEAN : init_collection_create(e, ok)
  \/ \E e \in Engines, ok \in BOOLEAN : init_collection_index(e, ok)
  \/ \E e \in Engines, ok \in BOOLEAN : init_collection_load(e, ok)
  \/ \E e \in Engines, ok \in BOOLEAN : close(e, ok)
  \/ return_to_caller

\* embed_texts, which reads and writes nothing the other calls touch
NextEmbed ==
  \/ \E e \in Engines, texts \in SeqsUpTo(Texts, MaxTexts), ok \in BOOLEAN :
       embed_texts(e, texts, ok)
  \/ \E e \in Engines, ok \in BOOLEAN : close(e, ok)
  \/ return_to_caller

\* The calls on the constructed engines that reach the store
Next ==
  \/ \E e \in Engines, in \in StoreInputs, m \in Metadatas, ok \in BOOLEAN :
       store_embeddings_insert(e, in[1], in[2], m, ok)
  \/ \E e \in Engines, ok \in BOOLEAN : store_embeddings_flush(e, ok)
  \/ \E e \in Engines, q \in Texts, k \in 1..MaxK, eok \in BOOLEAN,
        ok \in BOOLEAN : search(e, q, k, eok, ok)
  \/ \E e \in Engines, ok \in BOOLEAN : close(e, ok)
  \/ return_to_caller

SpecInit == New /\ [][NextInit]_vars

SpecEmbed == Init /\ [][NextEmbed]_vars

Spec == Init /\ [][Next]_vars

\* ------------------------------------------------------------------ claims

Ids(rows) == {r.id : r \in rows}
ValueIds(value) == {value[i].id : i \in DOMAIN value}
StoreDone == last.op = "store"
SearchDone == last.op = "search"
SearchOk == last.op = "search" /\ last.status = "ok"

\* C1: a store call with len(embeddings) # len(texts) fails before any call
\* to the store: no insert and no flush is issued and no ids are returned.
C1_PreconditionBeforeInsert ==
  (StoreDone /\ last.args.embeddings # last.args.texts) =>
    /\ last.status = "raised"
    /\ last.calls = <<>>
    /\ last.value = <<>>

\* C2: a write batch is all-or-nothing: no row of a batch whose store call
\* raised, at insert or at flush, is ever visible to search.
C2_FailedBatchNeverCommitted == Ids(committed) \cap failedIds = {}

C4_OneCreationAttempt ==
  (overlap /\ \A e \in Engines : ~ctor[e].error) =>
    (createCalls <= 1 /\ indexCalls <= 1)

\* C5: an initialisation that starts after another one has completed issues
\* no create-collection (at most one in total), does not raise unless the
\* environment fails one of its calls, and leaves the one collection.
C5_SequentialIdempotence ==
  \A e \in Engines : ctor[e].after =>
    /\ ctor[e].creates = 0
    /\ createCalls <= 1
    /\ pc[e] = "failed" => ctor[e].disturbed
    /\ pc[e] = "ready" => exists

\* C5 witness: the second of two sequential initialisations has completed
C5_Witness ==
  \E e \in Engines : ctor[e].after /\ pc[e] = "ready" /\ createCalls = 1

\* C6: a successful store call returns one id per input text/embedding
\* pair, and all ids returned over all store calls are pairwise distinct.
C6_IdsPerInputDistinct ==
  /\ (StoreDone /\ last.status = "ok") =>
       /\ Len(last.value) = last.args.texts
       /\ Len(last.value) = last.args.embeddings
       /\ \A i, j \in DOMAIN last.value : i # j => last.value[i] # last.value[j]
  /\ Cardinality(returned) = nReturned

\* C6 witness: a store call returns two ids
C6_Witness ==
  StoreDone /\ last.status = "ok" /\ Len(last.value) = 2 /\ nReturned = 2

\* C7: search(q, top_k) returns at most top_k results, by non-increasing
\* score.
C7_SearchAtMostKOrdered ==
  SearchOk =>
    /\ Len(last.value) <= last.args.top_k
    /\ \A i, j \in DOMAIN last.value :
         i < j => last.value[i].score >= last.value[j].score

\* C7 witness: a search returns two results of different scores
C7_Witness ==
  /\ SearchOk
  /\ Len(last.value) = 2
  /\ last.value[1].score > last.value[2].score

C9_SearchFailureNotMasked ==
  SearchDone =>
    /\ last.failed # "none" => (last.status = "raised" /\ last.value = <<>>)
    /\ (last.status = "ok" /\ last.value = <<>>) =>
         /\ last.failed = "none"
         /\ last.calls = <<"encode", "search">>
         /\ committed = {}
    /\ last.failed = "encode" => last.calls = <<"encode">>

\* C9 witness: the store rejected the query of a search
C9_Witness ==
  SearchDone /\ last.failed = "search" /\ last.status = "raised"

\* C10: no operation completes normally after its call to the store or the
\* model failed.
C10_EveryFailureRaised ==
  /\ last.failed # "none" => last.status = "raised"
  /\ \A e \in Engines : ctor[e].error => pc[e] = "failed"
\* C11: the order is connection, collection, ready: the calls of a
\* construction are a prefix of connect, has_collection, then the attach or
\* the create and the index, then load; a failed connect is the last call
\* (no has_collection, create, index or load follows) and the constructor
\* raises; an engine is ready only after connect and every call of the
\* collection's initialisation succeeded, and only a ready engine runs
\* store_embeddings or search.
CtorOrders ==
  {<<"connect", "has", "attach", "load">>,
   <<"connect", "has", "create", "index", "load">>}

C11_ConnectionThenCollection ==
  \A e \in Engines :
    /\ \E o \in CtorOrders : IsPrefix(ctor[e].calls, o)
    /\ ctor[e].error => pc[e] = "failed"
    /\ pc[e] \in {"ready", "flush"} =>
         (~ctor[e].error /\ ctor[e].calls \in CtorOrders)
    /\ call[e] # NoCall => pc[e] = "flush"

\* C11 witness: a constructor whose connect failed: it raised and issued no
\* other call
C11_Witness ==
  \E e \in Engines :
    pc[e] = "failed" /\ ctor[e].error /\ ctor[e].calls = <<"connect">>

\* C12: no retries and a fixed call order: a store call issues one insert
\* and then, only when the insert succeeded, one flush; its ids are returned
\* only after the flush succeeded; a search issues at most one store query,
\* after its one encode; the call that failed is the last one the call
\* issued.
C12_NoRetryFixedOrder ==
  /\ StoreDone =>
       /\ last.calls \in {<<"insert">>, <<"insert", "flush">>}
       /\ last.status = "ok" =>
            (last.calls = <<"insert", "flush">> /\ last.failed = "none")
       /\ last.status = "raised" =>
            (last.failed = last.calls[Len(last.calls)] /\ last.value = <<>>)
  /\ SearchDone =>
       /\ last.calls \in {<<"encode">>, <<"encode", "search">>}
       /\ last.status = "ok" =>
            (last.calls = <<"encode", "search">> /\ last.failed = "none")
       /\ last.status = "raised" => last.failed = last.calls[Len(last.calls)]
  /\ \A e \in Engines :
       pc[e] = "flush" =>
         /\ Range(call[e].ids) \subseteq Ids(buffer \cup committed)
         /\ Range(call[e].ids) \cap returned = {}

\* C12 witness: a store call whose flush failed after its insert succeeded:
\* it raised after one insert and one flush
C12_Witness ==
  /\ StoreDone
  /\ last.status = "raised"
  /\ last.failed = "flush"
  /\ last.args.texts > 0

\* C13: embed_texts returns one vector per input text, in input order (the
\* i-th vector is the i-th text's), each of the configured dimension, the
\* one the collection's vector field is created with; an empty input gives
\* an empty output.
C13_OneVectorPerText ==
  (last.op = "embed" /\ last.status = "ok") =>
    /\ Len(last.value) = Len(last.args)
    /\ \A i \in DOMAIN last.args :
         /\ last.value[i] = encode(last.args[i])
         /\ last.value[i].dim = dimension
    /\ last.args = <<>> => last.value = <<>>

\* C13 witness: embed_texts returned for an input of three texts, not all
\* the same
C13_Witness ==
  /\ last.op = "embed"
  /\ last.status = "ok"
  /\ Len(last.args) = 3
  /\ last.args[1] # last.args[2]
  /\ last.args[1] = last.args[3]

\* C14: a collection initialisation that returned has loaded the
\* collection: load is the last call of both branches, so an engine is ready
\* only over a loaded collection; the existing branch issues no
\* create-collection and no create-index call.
C14_LoadedWhenReady ==
  \A e \in Engines :
    /\ pc[e] \in {"ready", "flush"} =>
         (loaded /\ ctor[e].calls[Len(ctor[e].calls)] = "load")
    /\ "attach" \in Range(ctor[e].calls) =>
         /\ "create" \notin Range(ctor[e].calls)
         /\ "index" \notin Range(ctor[e].calls)
         /\ ctor[e].creates = 0

\* C14 witness: an engine is ready through the existing branch, over a
\* collection whose dim is not the configured one (nothing compared them)
C14_Witness ==
  \E e \in Engines :
    /\ pc[e] = "ready"
    /\ ctor[e].calls = <<"connect", "has", "attach", "load">>
    /\ collDim # dimension
    /\ loaded

C16_RowsOfOneCall ==
  \A e \in Engines :
    pc[e] = "flush" =>
      LET c == call[e]
          doc == IF "document_id" \in DOMAIN c.metadata
                 THEN c.metadata["document_id"] ELSE "unknown"
          rows == {r \in buffer \cup committed : r.id \in Range(c.ids)}
      IN /\ Len(c.ids) = Len(c.texts)
         /\ Len(c.embeddings) = Len(c.texts)
         /\ rows = {[id |-> c.ids[i], document_id |-> doc,
                     text |-> c.texts[i], vector |-> c.embeddings[i]] :
                      i \in DOMAIN c.ids}
         /\ Cardinality(rows) = Len(c.texts)

\* C16 witness: a call wrote two rows of different texts with a metadata
\* that names the document, and both rows carry that name
C16_Witness ==
  \E e \in Engines :
    /\ pc[e] = "flush"
    /\ Len(call[e].ids) = 2
    /\ call[e].texts[1] # call[e].texts[2]
    /\ "document_id" \in DOMAIN call[e].metadata
    /\ \A r \in buffer \cup committed :
         r.id \in Range(call[e].ids) => r.document_id # "unknown"

\* C17: after close() has returned on an engine, no later store call on
\* that engine changes the collection: no store_embeddings call of a closed
\* engine gets its rows inserted.
C17_NoStoreAfterClose ==
  \A e \in Engines : closed[e] => pc[e] # "flush"

====
